---- MODULE Spec2Model ----
(***************************************************************************)
(* Model of the SlicerAugmentator augmentation pipeline:                   *)
(*   SlicerAugmentatorDataset (load, apply_transform, apply_dict_transform,*)
(*   __getitem__, __len__) and SlicerAugmentatorLogic (process, preview).  *)
(*                                                                         *)
(* Two specifications:                                                     *)
(*   SpecCase  one call of dataset[0] on a one-case dataset, over every    *)
(*             combination of image path, mask-path list and transform     *)
(*             list within the bounds;                                     *)
(*   Spec      the batch drivers process and preview, one step per loop    *)
(*             iteration, over lists of cases taken from a directory.      *)
(***************************************************************************)
EXTENDS Integers, Sequences, FiniteSets, TLC

(***************************************************************************)
(* Bounds of the model.                                                    *)
(***************************************************************************)
\* longest transform list given to the one-case specification
MaxCaseTransforms == 3
\* longest transform list given to the batch drivers
MaxTransforms == 2
\* largest number of collected cases
MaxCases == 3

(***************************************************************************)
(* Volumes.  A torch.Tensor is a record: its dtype, the device it lives    *)
(* on, and its voxels (a flat tuple of integers).  Python's None is the    *)
(* record NoneT.                                                           *)
(***************************************************************************)
NoneT == [isNone |-> TRUE, dtype |-> "", device |-> "", vox |-> <<>>]

Tensor(dtype, device, vox) ==
    [isNone |-> FALSE, dtype |-> dtype, device |-> device, vox |-> vox]

\* `x != None`: a tensor compared with None is never equal to it
NotNone(x) == ~x.isNone

\* tensor.float()
Float(t) == Tensor("float32", t.device, t.vox)

\* tensor.to(device)
To(t, device) == Tensor(t.dtype, device, t.vox)

\* tensor.detach().cpu()
DetachCpu(t) == Tensor(t.dtype, "cpu", t.vox)

\* tensor.any(): some voxel is not zero
TensorAny(t) == \E i \in 1..Len(t.vox) : t.vox[i] # 0

(***************************************************************************)
(* The files of the input directory, as sitk.ReadImage followed by         *)
(* sitk.GetArrayFromImage sees them.  A path that is not listed cannot be  *)
(* decoded: ReadImage raises.                                              *)
(***************************************************************************)
NullPath == "<None>"

Files ==
    [p \in {"imgA.nrrd", "imgB.nrrd", "maskM.nrrd", "maskZ.nrrd"} |->
        CASE p = "imgA.nrrd"  -> [dtype |-> "int16", vox |-> <<1, 0>>]
          [] p = "imgB.nrrd"  -> [dtype |-> "int16", vox |-> <<2, 1>>]
          [] p = "maskM.nrrd" -> [dtype |-> "uint8", vox |-> <<0, 1>>]
          [] p = "maskZ.nrrd" -> [dtype |-> "uint8", vox |-> <<0, 0>>]]

\* sitk.ReadImage(path) raises
ReadImageRaises(path) == path \notin DOMAIN Files

\* `if (path)`: None and the empty string are falsy
Truthy(path) == path \notin {"", NullPath}

\* load with `except: return torch.tensor([])` in place of `return None`
load_EmptyTensor(path) ==
    IF Truthy(path)
    THEN IF ReadImageRaises(path)
         THEN Tensor("float32", "cpu", <<>>)
         ELSE Tensor(Files[path].dtype, "cpu", Files[path].vox)
    ELSE NoneT

\* SlicerAugmentatorDataset.load
load(path) ==
    IF Truthy(path)
    THEN IF ReadImageRaises(path)
         THEN NoneT                     \* except: return None
         ELSE Tensor(Files[path].dtype, "cpu", Files[path].vox)
    ELSE NoneT

(***************************************************************************)
(* The transform library.  A transform is opaque to the pipeline: it has a *)
(* type name, is or is not a RandomizableTransform, has or lacks           *)
(* get_transform_info, and maps a tensor to a tensor or raises.            *)
(***************************************************************************)
TransformPool ==
    <<  [cls |-> "RandFlipd",          randomizable |-> TRUE,  hasInfo |-> TRUE,  op |-> "randflip"],
        [cls |-> "RandCoarseDropoutd", randomizable |-> TRUE,  hasInfo |-> FALSE, op |-> "randdrop"],
        [cls |-> "Flip",               randomizable |-> FALSE, hasInfo |-> TRUE,  op |-> "flip"],
        [cls |-> "Lambda",             randomizable |-> FALSE, hasInfo |-> FALSE, op |-> "strict"] >>

TransformIds == 1..Len(TransformPool)

\* the random parameters one invocation of a randomizable transform draws
Draws == {0, 1}

\* isinstance(transform, RandomizableTransform)
IsRandomizable(transform) == TransformPool[transform.id].randomizable

Reverse(s) == [i \in 1..Len(s) |-> s[Len(s) + 1 - i]]

\* the transform's own computation on one tensor, with the random draw r of
\* this invocation; raises for the values in OpRaises
OpRaises(op, t) == op = "strict" /\ \E i \in 1..Len(t.vox) : t.vox[i] > 1

OpApply(op, t, r) ==
    CASE op = "randflip" -> Tensor(t.dtype, t.device, IF r = 1 THEN Reverse(t.vox) ELSE t.vox)
      [] op = "randdrop" -> Tensor(t.dtype, t.device, IF r = 1 THEN [i \in 1..Len(t.vox) |-> 0] ELSE t.vox)
      [] op = "flip"     -> Tensor(t.dtype, t.device, Reverse(t.vox))
      [] OTHER           -> t

\* sanitizeTransformName(transform): a short identifier from the type name
sanitizeTransformName(transform) ==
    CASE TransformPool[transform.id].cls = "RandFlipd"          -> "randflip"
      [] TransformPool[transform.id].cls = "RandCoarseDropoutd" -> "randcoarsedropout"
      [] TransformPool[transform.id].cls = "Flip"               -> "flip"
      [] OTHER                                                  -> "lambda"

\* try: transform.get_transform_info()["class"]  except AttributeError: sanitize
TransformName(transform) ==
    IF TransformPool[transform.id].hasInfo
    THEN TransformPool[transform.id].cls
    ELSE sanitizeTransformName(transform)

(***************************************************************************)
(* SlicerAugmentatorDataset.  A dataset `self` is a record of its fields:  *)
(* imgPaths, maskPaths (a list, or None), transformations, device.  A      *)
(* list-or-None value is a record [isNone, list].  A transform handed to   *)
(* an apply function is [id, pos, r]: its entry in the pool, its position  *)
(* in self.transformations and the random draw of this invocation.         *)
(*                                                                         *)
(* A result entry [name, tensor] is the two-element Python list            *)
(* [transform_name, transformedImg].  The apply functions also return the  *)
(* invocation they made (call): the position of the transform, whether it  *)
(* was called on a dictionary, and its arguments as a set of [key, t]      *)
(* (key "" for a bare tensor).  raised is TRUE when the transform raised.  *)
(***************************************************************************)
NoneList == [isNone |-> TRUE, list |-> <<>>]

SomeList(l) == [isNone |-> FALSE, list |-> l]

\* SlicerAugmentatorDataset.__init__
Dataset(imgPaths, maskPaths, transformations, device) ==
    [imgPaths |-> imgPaths, maskPaths |-> maskPaths,
     transformations |-> transformations, device |-> device]

\* SlicerAugmentatorDataset.__len__
DatasetLen(self) == Len(self.imgPaths)

\* apply_transform with transformedList.insert(0, ...) in place of append
apply_transform_Prepend(transform, img, transformedList) ==
    LET transform_name == TransformName(transform)
        op  == TransformPool[transform.id].op
        arg == Float(img)
    IN  [raised |-> OpRaises(op, arg),
         list   |-> <<[name |-> transform_name, tensor |-> OpApply(op, arg, transform.r)]>>
                    \o transformedList,
         call   |-> [pos |-> transform.pos, dict |-> FALSE,
                     args |-> {[key |-> "", t |-> arg]}]]

\* SlicerAugmentatorDataset.apply_transform
apply_transform(transform, img, transformedList) ==
    LET transform_name == TransformName(transform)
        op  == TransformPool[transform.id].op
        arg == Float(img)
    IN  [raised |-> OpRaises(op, arg),
         list   |-> Append(transformedList,
                           [name |-> transform_name, tensor |-> OpApply(op, arg, transform.r)]),
         call   |-> [pos |-> transform.pos, dict |-> FALSE,
                     args |-> {[key |-> "", t |-> arg]}]]

\* apply_dict_transform without transformedMasks.append(...)
apply_dict_transform_SkipMask(transform, data_dict, transformedImages, transformedMasks) ==
    LET transform_name == TransformName(transform)
        op   == TransformPool[transform.id].op
        out  == [k \in DOMAIN data_dict |-> OpApply(op, data_dict[k], transform.r)]
        call == [pos |-> transform.pos, dict |-> TRUE,
                 args |-> {[key |-> k, t |-> data_dict[k]] : k \in DOMAIN data_dict}]
        raised == \E k \in DOMAIN data_dict : OpRaises(op, data_dict[k])
    IN  [raised |-> raised,
         images |-> Append(transformedImages,
                           [name |-> transform_name, tensor |-> out["img"]]),
         masks  |-> IF transformedMasks.isNone THEN <<>> ELSE transformedMasks.list,
         call   |-> call]

\* apply_dict_transform that transforms the mask on its own, with a random
\* draw of its own (here: the other one)
apply_dict_transform_OwnDraw(transform, data_dict, transformedImages, transformedMasks) ==
    LET transform_name == TransformName(transform)
        op   == TransformPool[transform.id].op
        out  == [k \in DOMAIN data_dict |->
                    OpApply(op, data_dict[k],
                            IF k = "mask" THEN 1 - transform.r ELSE transform.r)]
        call == [pos |-> transform.pos, dict |-> TRUE,
                 args |-> {[key |-> k, t |-> data_dict[k]] : k \in DOMAIN data_dict}]
        raised == \E k \in DOMAIN data_dict : OpRaises(op, data_dict[k])
    IN  [raised |-> raised,
         images |-> Append(transformedImages,
                           [name |-> transform_name, tensor |-> out["img"]]),
         masks  |-> IF transformedMasks.isNone THEN <<>>
                    ELSE Append(transformedMasks.list,
                                [name |-> transform_name, tensor |-> out["mask"]]),
         call   |-> call]

\* SlicerAugmentatorDataset.apply_dict_transform
apply_dict_transform(transform, data_dict, transformedImages, transformedMasks) ==
    LET transform_name == TransformName(transform)
        op   == TransformPool[transform.id].op
        out  == [k \in DOMAIN data_dict |-> OpApply(op, data_dict[k], transform.r)]
        call == [pos |-> transform.pos, dict |-> TRUE,
                 args |-> {[key |-> k, t |-> data_dict[k]] : k \in DOMAIN data_dict}]
        raised == \E k \in DOMAIN data_dict : OpRaises(op, data_dict[k])
    IN  IF ~transformedMasks.isNone
        THEN \* transformedImg, transformedMask = transform(data_dict).values()
             [raised |-> raised \/ DOMAIN data_dict # {"img", "mask"},
              images |-> Append(transformedImages,
                                [name |-> transform_name, tensor |-> out["img"]]),
              masks  |-> Append(transformedMasks.list,
                                [name |-> transform_name, tensor |-> out["mask"]]),
              call   |-> call]
        ELSE [raised |-> raised,
              images |-> Append(transformedImages,
                                [name |-> transform_name, tensor |-> out["img"]]),
              masks  |-> <<>>,
              call   |-> call]

\* The body of `for transform in self.transformations` is four ifs in a row.
\* st is [raised, transformedImages, transformedMasks, calls]: the two lists,
\* the invocations made so far, and whether a transform has raised.

\* if (img != None and mask != None and isinstance(transform, RandomizableTransform))
IfJoint(self, img, mask, transform, st) ==
    IF NotNone(img) /\ NotNone(mask) /\ IsRandomizable(transform)
    THEN LET r == apply_dict_transform(transform,
                      [k \in {"img", "mask"} |->
                          IF k = "img" THEN To(img, self.device)
                                       ELSE To(mask, self.device)],
                      st.transformedImages, SomeList(st.transformedMasks))
         IN  [raised |-> r.raised, transformedImages |-> r.images,
              transformedMasks |-> r.masks, calls |-> Append(st.calls, r.call)]
    ELSE st

\* if (img != None and mask == None and isinstance(transform, RandomizableTransform))
IfImageOnly(self, img, mask, transform, st) ==
    IF st.raised THEN st
    ELSE IF NotNone(img) /\ ~NotNone(mask) /\ IsRandomizable(transform)
    THEN LET r == apply_dict_transform(transform,
                      [k \in {"img"} |-> To(img, self.device)],
                      st.transformedImages, NoneList)
         IN  [raised |-> r.raised, transformedImages |-> r.images,
              transformedMasks |-> r.masks, calls |-> Append(st.calls, r.call)]
    ELSE st

\* if (img != None and not isinstance(transform, RandomizableTransform))
IfImage(self, img, mask, transform, st) ==
    IF st.raised THEN st
    ELSE IF NotNone(img) /\ ~IsRandomizable(transform)
    THEN LET r == apply_transform(transform, To(img, self.device), st.transformedImages)
         IN  [raised |-> r.raised, transformedImages |-> r.list,
              transformedMasks |-> st.transformedMasks,
              calls |-> Append(st.calls, r.call)]
    ELSE st

\* the fourth if with `img != None and` added to its condition
IfMask_NeedsImage(self, img, mask, transform, st) ==
    IF st.raised THEN st
    ELSE IF NotNone(img) /\ NotNone(mask) /\ ~IsRandomizable(transform)
    THEN LET r == apply_transform(transform, To(mask, self.device), st.transformedMasks)
         IN  [raised |-> r.raised, transformedImages |-> st.transformedImages,
              transformedMasks |-> r.list,
              calls |-> Append(st.calls, r.call)]
    ELSE st

\* if (mask != None and not isinstance(transform, RandomizableTransform))
IfMask(self, img, mask, transform, st) ==
    IF st.raised THEN st
    ELSE IF NotNone(mask) /\ ~IsRandomizable(transform)
    THEN LET r == apply_transform(transform, To(mask, self.device), st.transformedMasks)
         IN  [raised |-> r.raised, transformedImages |-> st.transformedImages,
              transformedMasks |-> r.list,
              calls |-> Append(st.calls, r.call)]
    ELSE st

\* the four ifs in order, each on the state the one before it left (the
\* singleton sets bind each intermediate state to its value)
LoopBody(self, img, mask, transform, st) ==
    CHOOSE s4 \in
        {IfMask(self, img, mask, transform, s3) : s3 \in
            {IfImage(self, img, mask, transform, s2) : s2 \in
                {IfImageOnly(self, img, mask, transform, s1) : s1 \in
                    {IfJoint(self, img, mask, transform, s0) : s0 \in {st}}}}} : TRUE

RECURSIVE Loop(_, _, _, _, _, _)
Loop(self, img, mask, draws, pos, st) ==
    IF st.raised \/ pos > Len(self.transformations)
    THEN st
    ELSE CHOOSE end \in
            {Loop(self, img, mask, draws, pos + 1, s) : s \in
                {LoopBody(self, img, mask,
                          [id |-> self.transformations[pos], pos |-> pos, r |-> draws[pos]],
                          st)}} : TRUE

\* the image and the mask __getitem__ loads for case idx (0-based)
LoadedImg(self, idx) == load(self.imgPaths[idx + 1])

LoadedMask(self, idx) ==
    IF ~self.maskPaths.isNone /\ Len(self.maskPaths.list) > 0
    THEN load(self.maskPaths.list[idx + 1])
    ELSE NoneT

\* SlicerAugmentatorDataset.__getitem__: dataset[idx], with the random draw
\* draws[pos] for the transform at position pos.  When a transform raises,
\* the exception leaves __getitem__ (raised) and nothing is returned.
getitem(self, idx, draws) ==
    LET end == Loop(self, LoadedImg(self, idx), LoadedMask(self, idx), draws, 1,
                    [raised |-> FALSE, transformedImages |-> <<>>,
                     transformedMasks |-> <<>>, calls |-> <<>>])
    IN  IF end.raised
        THEN [raised |-> TRUE, transformedImages |-> <<>>, transformedMasks |-> <<>>,
              calls |-> end.calls]
        ELSE end

(***************************************************************************)
(* State.                                                                  *)
(*   mode          the driver that was started: "process", "preview", or    *)
(*                 "" before one is (in SpecCase: "case")                  *)
(*   pc            "idle" before a driver runs, "process"/"preview" while  *)
(*                 its loop runs, "case" before the single dataset[0] of   *)
(*                 SpecCase, "done" after the function returned, "raised"  *)
(*                 after an exception left it                              *)
(*   imgs, masks   the lists collectImagesAndMasksList returned            *)
(*   transformations, devices  the arguments of the driver                 *)
(*   dataset       the SlicerAugmentatorDataset                            *)
(*   dirIdx        the loop variable (0-based): the next case              *)
(*   out           what the last dataset[idx] returned (or that it raised) *)
(*   fetched       the indices dataset[...] was called with, in order      *)
(*   progressMax   progressBar.setMaximum; progressLog the values given to *)
(*                 progressBar.setValue, in order                          *)
(*   infoLabel     the text of infoLabel                                   *)
(*   saved         the calls of save, in order                             *)
(*   shown         the calls of showPreview, in order                      *)
(*   printed       the cases (dirIdx) whose exception preview caught and   *)
(*                 printed, in order                                       *)
(***************************************************************************)
VARIABLES mode, pc, imgs, masks, transformations, dataset, dirIdx, out, fetched,
          progressMax, progressLog, infoLabel, saved, shown, printed

vars == <<mode, pc, imgs, masks, transformations, dataset, dirIdx, out, fetched,
          progressMax, progressLog, infoLabel, saved, shown, printed>>

NoOut == [raised |-> FALSE, transformedImages |-> <<>>, transformedMasks |-> <<>>,
          calls |-> <<>>]

NoDataset == Dataset(<<>>, NoneList, <<>>, "cpu")

\* the sequences over S of length lo..hi
SeqsOf(S, lo, hi) == UNION {[1..n -> S] : n \in lo..hi}

\* the device strings the widget offers (deviceList)
Devices == {"CPU", "GPU 0 - card"}

\* extract_device_number(device): the accelerator the selector string names,
\* as the torch device of its index
extract_device_number(device) == "cuda:0"

\* self.device = extract_device_number(device) if device != "CPU" else "cpu"
DeviceOf(device) == IF device # "CPU" THEN extract_device_number(device) ELSE "cpu"

\* one random draw per randomizable transform of the list, none for the others
DrawsFor(ts) ==
    {d \in [1..Len(ts) -> Draws] :
        \A p \in 1..Len(ts) : ~TransformPool[ts[p]].randomizable => d[p] = 0}

(***************************************************************************)
(* SpecCase: one dataset[0] on a one-case dataset.                         *)
(***************************************************************************)
CaseImgPaths == {"imgA.nrrd", "imgB.nrrd", "corrupt.nrrd"}

CaseMaskPaths == {"", NullPath, "corrupt.nrrd", "maskM.nrrd", "maskZ.nrrd"}

InitCase ==
    /\ mode = "case"
    /\ pc = "case"
    /\ imgs \in {<<p>> : p \in CaseImgPaths}
    /\ masks = <<>>
    /\ transformations \in SeqsOf(TransformIds, 0, MaxCaseTransforms)
    /\ \E mp \in {NoneList, SomeList(<<>>)} \cup {SomeList(<<q>>) : q \in CaseMaskPaths} :
       \E device \in Devices :
          dataset = Dataset(imgs, mp, transformations, DeviceOf(device))
    /\ dirIdx = 0
    /\ out = NoOut
    /\ fetched = <<>>
    /\ progressMax = 0
    /\ progressLog = <<>>
    /\ infoLabel = ""
    /\ saved = <<>>
    /\ shown = <<>>
    /\ printed = <<>>

\* transformedImages, transformedMasks = dataset[0]
GetItem ==
    /\ pc = "case"
    /\ \E draws \in DrawsFor(dataset.transformations) :
          out' = getitem(dataset, dirIdx, draws)
    /\ fetched' = Append(fetched, dirIdx)
    /\ pc' = IF out'.raised THEN "raised" ELSE "done"
    /\ UNCHANGED <<mode, imgs, masks, transformations, dataset, dirIdx, progressMax,
                   progressLog, infoLabel, saved, shown, printed>>

NextCase == GetItem

SpecCase == InitCase /\ [][NextCase]_vars

(***************************************************************************)
(* The batch drivers.  The input directory holds cases of these kinds; the *)
(* collected lists hold one image path per case and either one mask path   *)
(* per case (the empty string where the case has no mask) or no mask path  *)
(* at all.  validateCollectedImagesAndMasks has accepted the lists: there  *)
(* is at least one case, and a non-empty mask list is as long as the image *)
(* list.                                                                   *)
(***************************************************************************)
CaseKinds ==
    <<  [img |-> "imgA.nrrd",    mask |-> "maskM.nrrd"],
        [img |-> "imgB.nrrd",    mask |-> "maskM.nrrd"],
        [img |-> "imgA.nrrd",    mask |-> ""],
        [img |-> "corrupt.nrrd", mask |-> "maskM.nrrd"],
        [img |-> "imgA.nrrd",    mask |-> "maskZ.nrrd"] >>

\* the transform lists of the batch runs: up to MaxTransforms of the
\* transforms BatchTransformIds, each at most once, in the order of their
\* numbers (the order of a configuration is the subject of the runs of
\* SpecCase)
BatchTransformIds == {1, 2, 4}

BatchTransformLists ==
    {ts \in SeqsOf(BatchTransformIds, 0, MaxTransforms) :
        \A i, j \in 1..Len(ts) : i < j => ts[i] < ts[j]}

Init ==
    /\ mode = ""
    /\ pc = "idle"
    /\ \E kinds \in SeqsOf(1..Len(CaseKinds), 1, MaxCases) :
          /\ imgs = [i \in 1..Len(kinds) |-> CaseKinds[kinds[i]].img]
          /\ masks \in {[i \in 1..Len(kinds) |-> CaseKinds[kinds[i]].mask], <<>>}
    /\ transformations \in BatchTransformLists
    /\ dataset = NoDataset
    /\ dirIdx = 0
    /\ out = NoOut
    /\ fetched = <<>>
    /\ progressMax = 0
    /\ progressLog = <<>>
    /\ infoLabel = ""
    /\ saved = <<>>
    /\ shown = <<>>
    /\ printed = <<>>

\* getOriginalCase(imgs[dirIdx], filesStructure): the case's name.  The image
\* paths of distinct cases are distinct, so the name stands for the position.
CaseNameOf(idx) == idx + 1

\* the list itself, in place of list[:1]
FirstOnly_All(list) == list

\* imgs[:1]
FirstOnly(list) == SubSeq(list, 1, IF Len(list) < 1 THEN Len(list) ELSE 1)

\* process, up to progressBar.setMaximum(len(dataset))
ProcessStart ==
    /\ pc = "idle"
    /\ \E device \in Devices :
          dataset' = Dataset(imgs, SomeList(masks), transformations, DeviceOf(device))
    /\ progressMax' = DatasetLen(dataset')
    /\ mode' = "process"
    /\ pc' = "process"
    /\ UNCHANGED <<imgs, masks, transformations, dirIdx, out, fetched, progressLog,
                   infoLabel, saved, shown, printed>>

\* the body of the loop without `and msk.any()`
ProcessPair_NoAnyCheck(transformedImages, transformedMasks, originalCaseMask, caseName, i) ==
    LET imgPack == transformedImages[i]
        hasMsk  == i <= Len(transformedMasks)
        transformName == imgPack.name
        currentDir == [case |-> caseName, transform |-> transformName]
        saveImg == [dir |-> currentDir, what |-> "img", i |-> i,
                    device |-> DetachCpu(imgPack.tensor).device]
        saveMsk == [dir |-> currentDir, what |-> "mask", i |-> i,
                    device |-> DetachCpu(transformedMasks[i].tensor).device]
    IN  IF originalCaseMask /\ hasMsk
        THEN <<saveImg, saveMsk>>
        ELSE <<saveImg>>

\* the body of `for i in range(len(transformedImages))` of process for index i
\* (1-based here): the calls of save it makes.  originalCaseMask is its truth
\* value: the mask image read when transformedMasks is not empty, else None.
ProcessPair(transformedImages, transformedMasks, originalCaseMask, caseName, i) ==
    LET imgPack == transformedImages[i]
        hasMsk  == i <= Len(transformedMasks)      \* mskPack is not None
        transformName == imgPack.name
        currentDir == [case |-> caseName, transform |-> transformName]
        saveImg == [dir |-> currentDir, what |-> "img", i |-> i,
                    device |-> DetachCpu(imgPack.tensor).device]
        saveMsk == [dir |-> currentDir, what |-> "mask", i |-> i,
                    device |-> DetachCpu(transformedMasks[i].tensor).device]
    IN  IF originalCaseMask /\ hasMsk /\ TensorAny(transformedMasks[i].tensor)
        THEN <<saveImg, saveMsk>>
        ELSE <<saveImg>>

RECURSIVE ProcessPairs(_, _, _, _, _)
ProcessPairs(transformedImages, transformedMasks, originalCaseMask, caseName, i) ==
    IF i > Len(transformedImages)
    THEN <<>>
    ELSE ProcessPair(transformedImages, transformedMasks, originalCaseMask, caseName, i)
         \o ProcessPairs(transformedImages, transformedMasks, originalCaseMask, caseName, i + 1)

\* progressBar.setValue(dirIdx)
ProgressValue_Idx(idx) == idx

\* progressBar.setValue(dirIdx + 1)
ProgressValue(idx) == idx + 1

\* process with preview's `except Exception as e: print(e)`
ProcessExcept_Swallow ==
    /\ pc' = "process"
    /\ dirIdx' = dirIdx + 1
    /\ UNCHANGED progressLog

\* process: an exception in the iteration: `except Exception as e: raise e`
\* (and dataset[dirIdx], which stands outside the try)
ProcessExcept ==
    /\ pc' = "raised"
    /\ UNCHANGED <<dirIdx, progressLog>>

\* the collaborators called inside the try block of process may raise:
\* getOriginalCase before anything is saved, makeDir for the i-th result
\* (1 <= i <= n), or the j-th save call of the case (1 <= j <= m); "none" is
\* the iteration in which every one of them returns
ProcessFaults(n, m) ==
    {[at |-> a, i |-> 0] : a \in {"none", "getOriginalCase"}}
        \cup {[at |-> "makeDir", i |-> j] : j \in 1..n}
        \cup {[at |-> "save", i |-> j] : j \in 1..m}

\* the save calls of a case that returned before the collaborator raised
SavedBefore(calls, fault) ==
    IF fault.at = "getOriginalCase" THEN <<>>
    ELSE IF fault.at = "makeDir" THEN SelectSeq(calls, LAMBDA c : c.i < fault.i)
    ELSE IF fault.at = "save" THEN SubSeq(calls, 1, fault.i - 1)
    ELSE calls

\* one iteration of `for dirIdx in range(len(dataset))` of process; saved
\* collects the save calls that returned
ProcessCase ==
    /\ pc = "process"
    /\ dirIdx < DatasetLen(dataset)
    /\ \E draws \in DrawsFor(dataset.transformations) :
          out' = getitem(dataset, dirIdx, draws)
    /\ fetched' = Append(fetched, dirIdx)
    /\ IF out'.raised
       THEN ProcessExcept /\ UNCHANGED saved
       ELSE LET calls == ProcessPairs(out'.transformedImages, out'.transformedMasks,
                                      out'.transformedMasks # <<>>,
                                      CaseNameOf(dirIdx), 1)
            IN  \E fault \in ProcessFaults(Len(out'.transformedImages), Len(calls)) :
                   IF /\ fault.at # "getOriginalCase"
                      /\ out'.transformedMasks # <<>>
                      /\ ReadImageRaises(masks[dirIdx + 1])
                   THEN ProcessExcept /\ UNCHANGED saved   \* sitk.ReadImage raises
                   ELSE /\ saved' = saved \o SavedBefore(calls, fault)
                        /\ IF fault.at # "none"
                           THEN ProcessExcept
                           ELSE /\ progressLog' = Append(progressLog, ProgressValue(dirIdx))
                                /\ dirIdx' = dirIdx + 1
                                /\ pc' = "process"
    /\ UNCHANGED <<mode, imgs, masks, transformations, dataset, progressMax, infoLabel,
                   shown, printed>>

\* process, after the loop: the completion message
ProcessFinish ==
    /\ pc = "process"
    /\ dirIdx >= DatasetLen(dataset)
    /\ infoLabel' = "Processing completed"
    /\ pc' = "done"
    /\ UNCHANGED <<mode, imgs, masks, transformations, dataset, dirIdx, out, fetched,
                   progressMax, progressLog, saved, shown, printed>>

\* preview, up to progressBar.setMaximum(len(dataset)); device is left at its
\* default "CPU"
PreviewStart ==
    /\ pc = "idle"
    /\ dataset' = Dataset(FirstOnly(imgs), SomeList(FirstOnly(masks)), transformations,
                          DeviceOf("CPU"))
    /\ progressMax' = DatasetLen(dataset')
    /\ mode' = "preview"
    /\ pc' = "preview"
    /\ UNCHANGED <<imgs, masks, transformations, dirIdx, out, fetched, progressLog,
                   infoLabel, saved, shown, printed>>

\* the showPreview calls of one case of preview, and whether the case's try
\* block raised before its end.  With masks: `_, msk = mskPack` raises
\* TypeError at the first index that has no mask entry.
RECURSIVE PreviewPairs(_, _, _, _)
PreviewPairs(transformedImages, transformedMasks, caseName, i) ==
    IF i > Len(transformedImages)
    THEN [raised |-> FALSE, calls |-> <<>>]
    ELSE IF i > Len(transformedMasks)
    THEN [raised |-> TRUE, calls |-> <<>>]
    ELSE LET transformName == transformedImages[i].name
             rest == PreviewPairs(transformedImages, transformedMasks, caseName, i + 1)
         IN  [raised |-> rest.raised,
              calls  |-> <<[case |-> caseName,
                            imgNodeName  |-> <<caseName, transformName, "img">>,
                            maskNodeName |-> <<caseName, transformName, "mask">>,
                            withMask |-> TRUE, i |-> i]>> \o rest.calls]

PreviewImages(transformedImages, caseName) ==
    [raised |-> FALSE,
     calls  |-> [i \in 1..Len(transformedImages) |->
                    [case |-> caseName,
                     imgNodeName  |-> <<caseName, transformedImages[i].name, "img">>,
                     maskNodeName |-> <<>>,
                     withMask |-> FALSE, i |-> i]]]

\* preview with process's `except Exception as e: raise e`
PreviewExcept_Reraise ==
    /\ pc' = "raised"
    /\ UNCHANGED <<printed, dirIdx, progressLog>>

\* preview: an exception in the iteration: `except Exception as e: print(e)`,
\* and the loop goes on
PreviewExcept ==
    /\ printed' = Append(printed, dirIdx)
    /\ dirIdx' = dirIdx + 1
    /\ pc' = "preview"
    /\ UNCHANGED progressLog

\* the collaborators called inside the try block of preview may raise:
\* getOriginalCase before anything is displayed, the i-th showPreview call
\* of the case (1 <= i <= n), or resetViews after the last one; "none" is the
\* iteration in which every one of them returns
PreviewFaults(n) ==
    {[at |-> a, i |-> 0] : a \in {"none", "getOriginalCase", "resetViews"}}
        \cup {[at |-> "showPreview", i |-> j] : j \in 1..n}

\* one iteration of `for dirIdx in range(len(dataset))` of preview; shown
\* collects the showPreview calls that returned
PreviewCase ==
    /\ pc = "preview"
    /\ dirIdx < DatasetLen(dataset)
    /\ \E draws \in DrawsFor(dataset.transformations) :
          out' = getitem(dataset, dirIdx, draws)
    /\ fetched' = Append(fetched, dirIdx)
    /\ IF out'.raised
       THEN PreviewExcept /\ UNCHANGED shown
       ELSE LET d == IF out'.transformedMasks # <<>>
                     THEN PreviewPairs(out'.transformedImages, out'.transformedMasks,
                                       CaseNameOf(dirIdx), 1)
                     ELSE PreviewImages(out'.transformedImages, CaseNameOf(dirIdx))
            IN  \E fault \in PreviewFaults(Len(d.calls)) :
                   IF fault.at = "getOriginalCase"
                   THEN PreviewExcept /\ UNCHANGED shown
                   ELSE IF /\ out'.transformedMasks # <<>>
                           /\ ReadImageRaises(masks[dirIdx + 1])
                   THEN PreviewExcept /\ UNCHANGED shown
                   ELSE IF fault.at = "showPreview"
                   THEN /\ shown' = shown \o SubSeq(d.calls, 1, fault.i - 1)
                        /\ PreviewExcept
                   ELSE /\ shown' = shown \o d.calls
                        /\ IF d.raised \/ fault.at = "resetViews"
                           THEN PreviewExcept
                           ELSE /\ progressLog' = Append(progressLog, ProgressValue(dirIdx))
                                /\ dirIdx' = dirIdx + 1
                                /\ pc' = "preview"
                                /\ UNCHANGED printed
    /\ UNCHANGED <<mode, imgs, masks, transformations, dataset, progressMax, infoLabel,
                   saved>>

\* preview, after the loop: the completion message
PreviewFinish ==
    /\ pc = "preview"
    /\ dirIdx >= DatasetLen(dataset)
    /\ infoLabel' = "Processing completed"
    /\ pc' = "done"
    /\ UNCHANGED <<mode, imgs, masks, transformations, dataset, dirIdx, out, fetched,
                   progressMax, progressLog, saved, shown, printed>>

Next ==
    \/ ProcessStart
    \/ ProcessCase
    \/ ProcessFinish
    \/ PreviewStart
    \/ PreviewCase
    \/ PreviewFinish

Spec == Init /\ [][Next]_vars

(***************************************************************************)
(* Claims about dataset[idx] (checked under SpecCase).                     *)
(***************************************************************************)
\* a path that load turns into a tensor
Readable(path) == path \in DOMAIN Files

\* the case of the one-case dataset has an image / a mask that loads
ImgPresent == Readable(dataset.imgPaths[1])

MaskPresent ==
    /\ ~dataset.maskPaths.isNone
    /\ dataset.maskPaths.list # <<>>
    /\ Readable(dataset.maskPaths.list[1])

\* dataset[0] has returned
Returned == mode = "case" /\ pc = "done"

NumTransforms == Len(dataset.transformations)

AllRandomizable ==
    \A i \in 1..NumTransforms : TransformPool[dataset.transformations[i]].randomizable

\* the names of a result list, and the names of the configured transforms
Names(list) == [i \in 1..Len(list) |-> list[i].name]

NameAt(i) ==
    LET t == TransformPool[dataset.transformations[i]]
    IN  IF t.hasInfo THEN t.cls
        ELSE CASE t.cls = "RandCoarseDropoutd" -> "randcoarsedropout"
               [] OTHER -> "lambda"

ConfiguredNames == [i \in 1..NumTransforms |-> NameAt(i)]

\* C1 as stated: for every case with a present mask (its image loaded or not)
\* and an all-Randomizable list of length N, both result lists have length N
\* and the same names at the same positions.
C1_Original ==
    (Returned /\ MaskPresent /\ AllRandomizable) =>
        /\ Len(out.transformedImages) = NumTransforms
        /\ Len(out.transformedMasks) = NumTransforms
        /\ Names(out.transformedImages) = Names(out.transformedMasks)

\* C1 amended: the same for every case whose image and mask are both present;
\* when the image failed to load, an all-Randomizable list leaves both result
\* lists empty.
C1_JointRandomizable ==
    (Returned /\ MaskPresent /\ AllRandomizable) =>
        IF ImgPresent
        THEN /\ Len(out.transformedImages) = NumTransforms
             /\ Len(out.transformedMasks) = NumTransforms
             /\ Names(out.transformedImages) = Names(out.transformedMasks)
        ELSE /\ out.transformedImages = <<>>
             /\ out.transformedMasks = <<>>

C1_Witness ==
    /\ Returned /\ MaskPresent /\ ImgPresent /\ AllRandomizable
    /\ NumTransforms >= 2
    /\ Names(out.transformedMasks) = <<"RandFlipd", "randcoarsedropout">>
    /\ Names(out.transformedImages) = <<"RandFlipd", "randcoarsedropout">>

\* C2: for every case without a mask (maskPaths None or empty, an empty or
\* null mask path, or a mask that fails to load), whatever the transform list
\* and whether or not the image loaded, transformedMasks is returned empty.
C2_NoMaskNoMaskResults ==
    (Returned /\ ~MaskPresent) => out.transformedMasks = <<>>

C2_Witness ==
    /\ Returned
    /\ ~dataset.maskPaths.isNone
    /\ dataset.maskPaths.list = <<"corrupt.nrrd">>
    /\ ImgPresent
    /\ dataset.transformations = <<2, 3, 1>>
    /\ Len(out.transformedImages) = 3
    /\ out.transformedMasks = <<>>

\* C3: for every case with image and mask both present and every transform
\* list t, mixed or not, both result lists have the length of t and entry i
\* carries the name of t[i]: configuration order, not grouped by kind.
C3_ConfigurationOrder ==
    (Returned /\ ImgPresent /\ MaskPresent) =>
        /\ Names(out.transformedImages) = ConfiguredNames
        /\ Names(out.transformedMasks) = ConfiguredNames

C3_Witness ==
    /\ Returned /\ ImgPresent /\ MaskPresent
    /\ dataset.transformations = <<3, 1, 4>>
    /\ Names(out.transformedImages) = <<"Flip", "RandFlipd", "lambda">>
    /\ Names(out.transformedMasks) = <<"Flip", "RandFlipd", "lambda">>

\* the positions of the Deterministic transforms, in order, as names
RECURSIVE DeterministicNamesFrom(_)
DeterministicNamesFrom(i) ==
    IF i > NumTransforms THEN <<>>
    ELSE (IF TransformPool[dataset.transformations[i]].randomizable
          THEN <<>> ELSE <<NameAt(i)>>) \o DeterministicNamesFrom(i + 1)

\* load returns None, and does not raise, for an empty path, a null path and
\* a path that cannot be decoded
LoadFailureIsAbsence ==
    \A path \in {"", NullPath, "corrupt.nrrd", "missing.nrrd"} : load(path) = NoneT

\* C8 as stated: a load failure is an absence, and a case with an absent image
\* and a present mask returns no image result and the mask results of the
\* configured transforms, in configuration order.
C8_Original ==
    /\ LoadFailureIsAbsence
    /\ (Returned /\ ~ImgPresent /\ MaskPresent) =>
          /\ out.transformedImages = <<>>
          /\ Names(out.transformedMasks) = ConfiguredNames

\* C8 amended: a load failure is an absence, and a case with an absent image
\* and a present mask returns no image result, passes nothing but the mask to
\* a transform, and returns the mask results of the configured Deterministic
\* transforms only, in configuration order: a Randomizable transform adds
\* nothing for such a case.
C8_AbsentImageMaskBranch ==
    /\ LoadFailureIsAbsence
    /\ (Returned /\ ~ImgPresent /\ MaskPresent) =>
          /\ out.transformedImages = <<>>
          /\ Names(out.transformedMasks) = DeterministicNamesFrom(1)
          /\ Len(out.calls) = Len(out.transformedMasks)
          /\ \A k \in 1..Len(out.calls) :
                /\ ~out.calls[k].dict
                /\ \A a \in out.calls[k].args :
                      a.t.vox = Files[dataset.maskPaths.list[1]].vox

C8_Witness ==
    /\ Returned /\ ~ImgPresent /\ MaskPresent
    /\ dataset.transformations = <<1, 3, 4>>
    /\ out.transformedImages = <<>>
    /\ Names(out.transformedMasks) = <<"Flip", "lambda">>

\* the invocations of the transform at position i
CallsAt(i) == {k \in 1..Len(out.calls) : out.calls[k].pos = i}

ArgVox(k, key) == {a.t.vox : a \in {b \in out.calls[k].args : b.key = key}}

\* C10: within one dataset[idx] on a case with image and mask both present,
\* each Randomizable transform is invoked exactly once, on {img, mask}, and
\* its image entry and its mask entry come from that invocation (one random
\* draw); each Deterministic transform is invoked exactly twice, first on the
\* image alone, then on the mask alone; each transform adds exactly one entry
\* to each list; every invocation receives the loaded volume.
C10_InvocationsPerTransform ==
    (Returned /\ ImgPresent /\ MaskPresent) =>
        LET imgVox  == Files[dataset.imgPaths[1]].vox
            maskVox == Files[dataset.maskPaths.list[1]].vox
            onDev(dt, vox) == Tensor(dt, dataset.device, vox)
        IN  /\ Len(out.transformedImages) = NumTransforms
            /\ Len(out.transformedMasks) = NumTransforms
            /\ \A k \in 1..Len(out.calls) : out.calls[k].pos \in 1..NumTransforms
            /\ \A i \in 1..NumTransforms :
                  LET t == TransformPool[dataset.transformations[i]]
                  IN  IF t.randomizable
                      THEN /\ Cardinality(CallsAt(i)) = 1
                           /\ \A k \in CallsAt(i) :
                                 /\ out.calls[k].dict
                                 /\ {a.key : a \in out.calls[k].args} = {"img", "mask"}
                                 /\ ArgVox(k, "img") = {imgVox}
                                 /\ ArgVox(k, "mask") = {maskVox}
                           /\ \E r \in Draws :
                                 /\ out.transformedImages[i].tensor.vox
                                      = OpApply(t.op, onDev("int16", imgVox), r).vox
                                 /\ out.transformedMasks[i].tensor.vox
                                      = OpApply(t.op, onDev("uint8", maskVox), r).vox
                      ELSE /\ Cardinality(CallsAt(i)) = 2
                           /\ \E k1, k2 \in CallsAt(i) :
                                 /\ k1 < k2
                                 /\ ~out.calls[k1].dict /\ ~out.calls[k2].dict
                                 /\ ArgVox(k1, "") = {imgVox}
                                 /\ ArgVox(k2, "") = {maskVox}

C10_Witness ==
    /\ Returned /\ ImgPresent /\ MaskPresent
    /\ dataset.transformations = <<1, 3, 2>>
    /\ Len(out.calls) = 4
    /\ out.transformedImages[1].tensor.vox = <<0, 1>>
    /\ out.transformedMasks[1].tensor.vox = <<1, 0>>

(***************************************************************************)
(* Claims about process and preview (checked under Spec).                  *)
(***************************************************************************)
\* the elements of a sequence
Range(seq) == {seq[k] : k \in 1..Len(seq)}

\* <<1, ..., n>>
UpTo(n) == [k \in 1..n |-> k]

Completed == infoLabel = "Processing completed"

\* the save calls that wrote an image of case c
ImgSavesOf(c) == {k \in 1..Len(saved) : saved[k].dir.case = c /\ saved[k].what = "img"}

\* C4: in process mode, when a transform raises for case k of the batch, the
\* results of every case before k have been persisted, nothing of case k or
\* of a later case is persisted, no case after k is loaded or transformed,
\* the exception leaves process, and no completion message is set.  Whatever
\* raised in case k (a transform or a collaborator), the cases before k are
\* persisted in full and no case after k is touched.
C4_ProcessAborts ==
    /\ (mode = "process" /\ out.raised) =>
          /\ pc = "raised"
          /\ \A k \in 1..Len(saved) : saved[k].dir.case \in 1..dirIdx
    /\ (mode = "process" /\ pc = "raised") =>
          /\ fetched = [k \in 1..(dirIdx + 1) |-> k - 1]
          /\ progressLog = UpTo(dirIdx)
          /\ \A c \in 1..dirIdx :
                Cardinality(ImgSavesOf(c))
                    = IF Readable(imgs[c]) THEN Len(transformations) ELSE 0
          /\ \A k \in 1..Len(saved) : saved[k].dir.case \in 1..(dirIdx + 1)
          /\ ~Completed
          /\ ~ENABLED Next

\* the scenario of the claim: case 2 of 3 raises
C4_Witness ==
    /\ mode = "process" /\ pc = "raised" /\ out.raised
    /\ Len(imgs) = 3
    /\ fetched = <<0, 1>>
    /\ Cardinality(ImgSavesOf(1)) = 2
    /\ ImgSavesOf(2) = {} /\ ImgSavesOf(3) = {}

\* C5 as stated: in preview mode an exception of a case is caught, every
\* later case of the input is still processed, and the completion message is
\* set at the end.
C5_Original ==
    /\ mode = "preview" => pc # "raised"
    /\ (mode = "preview" /\ pc = "done") =>
          /\ Completed
          /\ \A k \in Range(printed) :
                \A j \in (k + 1)..(Len(imgs) - 1) : j \in Range(fetched)

\* C5 amended: in preview mode an exception of the case, raised while the
\* transforms are applied or while the results are displayed, is caught and
\* does not leave preview, the loop goes on to its end and the completion
\* message is set; the engine holds the first case only, so no later case of
\* the input is ever processed or displayed, whether or not the first one
\* raised.
C5_PreviewSwallows ==
    mode = "preview" =>
        /\ pc \in {"preview", "done"}
        /\ out.raised => printed = <<0>>
        /\ printed \in {<<>>, <<0>>}
        /\ pc = "preview" => ENABLED (PreviewCase \/ PreviewFinish)
        /\ pc = "done" => Completed
        /\ Range(fetched) \subseteq {0}
        /\ \A k \in 1..Len(shown) : shown[k].case = 1

\* three cases, the first one has two results and the display of the second
\* raises: the exception is printed, the first result stays displayed, the
\* message is set, and cases 2 and 3 are never fetched
C5_Witness ==
    /\ mode = "preview" /\ pc = "done" /\ Completed
    /\ Len(imgs) = 3
    /\ ~out.raised
    /\ Len(out.transformedImages) = 2
    /\ Len(shown) = 1
    /\ printed = <<0>>
    /\ progressLog = <<>>
    /\ fetched = <<0>>

\* C6: in preview mode, whatever the number m >= 1 of collected cases, the
\* dataset holds exactly the first case, the progress maximum is 1, and no
\* other case is loaded, transformed or displayed.
C6_PreviewFirstCaseOnly ==
    mode = "preview" =>
        /\ DatasetLen(dataset) = 1
        /\ dataset.imgPaths = <<imgs[1]>>
        /\ dataset.maskPaths.list = (IF masks = <<>> THEN <<>> ELSE <<masks[1]>>)
        /\ progressMax = 1
        /\ fetched \in {<<>>, <<0>>}
        /\ \A k \in 1..Len(shown) :
              shown[k].case = 1 /\ shown[k].imgNodeName[1] = 1

C6_Witness ==
    /\ mode = "preview" /\ pc = "done"
    /\ Len(imgs) >= 3
    /\ Len(shown) = 2
    /\ progressMax = 1

\* C7 as stated: the progress maximum is the dataset's length, the progress
\* value goes to k after the k-th case, and a run that sets its completion
\* message has reported the maximum as its last progress value.
C7_Original ==
    /\ mode \in {"process", "preview"} => progressMax = DatasetLen(dataset)
    /\ pc = "done" =>
          /\ progressLog # <<>>
          /\ progressLog[Len(progressLog)] = progressMax

\* the cases whose iteration ended in an exception
Failed == IF mode = "process" /\ pc = "raised" THEN {dirIdx} ELSE Range(printed)

\* C7 amended: the progress maximum is the dataset's length; the progress
\* value is set once per case whose iteration ends without an exception
\* (never per transform), to k for the k-th case; a run that sets its
\* completion message without any case having raised has reported the
\* maximum as its last value; a preview whose case raised sets the message
\* with no progress value reported.
C7_ProgressPerCompletedCase ==
    mode \in {"process", "preview"} =>
        /\ progressMax = DatasetLen(dataset)
        /\ progressLog = SelectSeq([k \in 1..Len(fetched) |-> fetched[k] + 1],
                                   LAMBDA v : (v - 1) \notin Failed)
        /\ (pc = "done" /\ Failed = {}) =>
              /\ progressLog # <<>>
              /\ progressLog[Len(progressLog)] = progressMax
        /\ (pc = "done" /\ Failed # {}) => (mode = "preview" /\ progressLog = <<>>)

C7_Witness ==
    /\ mode = "process" /\ pc = "done" /\ Completed
    /\ Len(transformations) = 2
    /\ progressMax = 3
    /\ progressLog = <<1, 2, 3>>

\* the save calls of the case process handled last
LastCase == CaseNameOf(fetched[Len(fetched)])

LastSaves == {k \in 1..Len(saved) : saved[k].dir.case = LastCase}

====
